---- MODULE Spec2Model ----
(***************************************************************************)
(* Model of the authentication and request-governance boundary of          *)
(* fastapi-starter: the sliding-window rate limiter                        *)
(* (app/core/middleware.py), the token service (app/utils/security.py),    *)
(* the directory adapter (app/utils/ldap.py) and the login orchestrator    *)
(* (app/api/v1/endpoints/auth.py).                                         *)
(*                                                                         *)
(* Time is counted in ticks.  The governor compares float seconds and only *)
(* differences matter, so a tick is its unit.  The token service works on  *)
(* datetimes that jwt.encode truncates to whole seconds; there a second    *)
(* holds TicksPerSecond ticks.  The clock never runs backwards.            *)
(***************************************************************************)
EXTENDS Integers, Sequences, FiniteSets, TLC

VARIABLES
    now,        \* the wall clock, in ticks (time.time(), datetime.utcnow())
    clients,    \* RateLimitMiddleware.clients: client key -> list of timestamps
    req,        \* requests awaiting call_next inside dispatch, counted per
                \* client key (admitted) and under "exempt" (health checks)
    resp,       \* the last response dispatch returned
    lenAtAdmit, \* history, kept where it is asked for: client key -> for each
                \* window length, the number of requests inside dispatch that
                \* were admitted at that length (their own timestamp counted)
    admitted,   \* history: client key -> the timestamps admitted within the
                \* trailing period (now - Period, now]
    settings,   \* the cached Settings instance
    loginRes,   \* the outcome of the last call of login
    held,       \* the token the caller presents, with how it was made
    vres        \* the outcome of verify_token / get_current_user at this instant

govVars == <<now, clients, req, resp, admitted, lenAtAdmit>>
authVars == <<settings, loginRes, held, vres>>
vars == <<now, clients, req, resp, admitted, lenAtAdmit, settings, loginRes, held,
          vres>>

NoLogin == [called |-> FALSE]
NoHistory == [tracked |-> FALSE]
NoToken == [form |-> "none"]
NoHeld == [tok |-> NoToken]
NoVerify == [called |-> FALSE]

(***************************************************************************)
(* Bounds of the model.                                                    *)
(***************************************************************************)
\* The last tick of the clock.
MaxTime == 4
\* Requests that can be inside dispatch at the same time.
MaxReq == 3
\* RateLimitMiddleware(calls=..., period=...), scaled down: N and T.
Calls == 2
Period == 3


(***************************************************************************)
(* Request Governor: RateLimitMiddleware                                   *)
(***************************************************************************)
NoClient == "no-client"
Addrs == {"10.0.0.1"}
Peers == Addrs \cup {NoClient}
Keys == Addrs \cup {"unknown"}

ExemptOnlyHealth == {"/health"}

\* The paths dispatch passes on without looking at the window.
ExemptPaths == {"/health", "/api/v1/health"}
Paths == ExemptPaths \cup {"/api/v1/auth/login"}

ClientKeyOneForAll(peer) == "unknown"

\* client_ip = request.client.host if request.client else "unknown"
ClientKey(peer) == IF peer = NoClient THEN "unknown" ELSE peer

\* self.clients[client_ip] on a defaultdict(list): a missing key reads as [].
Window(c, key) == IF key \in DOMAIN c THEN c[key] ELSE << >>

KeepsAgeAtMostPeriod(timestamp, current_time) == current_time - timestamp <= Period

\* The filter of the list comprehension: current_time - timestamp < self.period
Keeps(timestamp, current_time) == current_time - timestamp < Period

\* "Clean old requests": the comprehension keeps the order of the list.
Purge(window, current_time) ==
    SelectSeq(window, LAMBDA timestamp : Keeps(timestamp, current_time))

LimitReachedOffByOne(window) == Len(window) > Calls

\* "Check rate limit": len(self.clients[client_ip]) >= self.calls
LimitReached(window) == Len(window) >= Calls

\* The assignment of the purged list, then the append on admission.
StoreWindow(c, key, window) ==
    [k \in DOMAIN c \cup {key} |-> IF k = key THEN window ELSE c[k]]

\* A response without a body or rate limit headers of the governor.
NoDetail == [calls |-> 0, period |-> 0]
NoHeaders == [h \in {} |-> 0]

NoResp == [status |-> 0, key |-> "", remaining |-> -1,
           detail |-> NoDetail, headers |-> NoHeaders]

\* JSONResponse(status_code=429, content={"detail": "Rate limit exceeded.
\* Maximum {calls} requests per {period} seconds."}): the two numbers of the
\* text, and no header of the governor.
RateLimitExceeded(key) ==
    [NoResp EXCEPT !.status = 429, !.key = key,
                   !.detail = [calls |-> Calls, period |-> Period]]

\* The headers dispatch adds to the response of an admitted request.
\* X-RateLimit-Reset, int(current_time + period) of the request's own entry
\* time, is left out: the model does not keep that time per request.
RateLimitHeaders(remaining) ==
    [h \in {"X-RateLimit-Limit", "X-RateLimit-Remaining"} |->
        IF h = "X-RateLimit-Limit" THEN Calls ELSE remaining]

Max(a, b) == IF a >= b THEN a ELSE b

RECURSIVE SumReq(_)
SumReq(S) == IF S = {} THEN 0
             ELSE LET k == CHOOSE x \in S : TRUE IN req[k] + SumReq(S \ {k})

\* The requests that are inside dispatch, awaiting call_next.
InFlight == SumReq(DOMAIN req)

\* History only: whether an admission at timestamp lies in the trailing
\* period (current_time - Period, current_time].
InTrailing(timestamp, current_time) == timestamp > current_time - Period

\* History only: one more request of key is inside dispatch, admitted when
\* its window had length c; one of them has left dispatch.
Admitted(h, key, c) ==
    IF h.tracked THEN [h EXCEPT !.bag[key][c] = @ + 1] ELSE h

Left(h, key, c) ==
    IF h.tracked THEN [h EXCEPT !.bag[key][c] = @ - 1] ELSE h

DispatchRejectionFallsThrough(peer, path) ==
    /\ InFlight < MaxReq
    /\ LET key == ClientKey(peer)
           kept == Purge(Window(clients, key), now)
       IN  IF path \in ExemptPaths
           THEN /\ req' = [req EXCEPT !["exempt"] = @ + 1]
                /\ UNCHANGED <<clients, admitted, resp, lenAtAdmit>>
           ELSE IF LimitReached(kept)
           THEN /\ clients' = StoreWindow(clients, key, kept)
                /\ resp' = RateLimitExceeded(key)
                /\ req' = [req EXCEPT ![key] = @ + 1]
                /\ UNCHANGED <<admitted, lenAtAdmit>>
           ELSE /\ clients' = StoreWindow(clients, key, Append(kept, now))
                /\ req' = [req EXCEPT ![key] = @ + 1]
                /\ admitted' = [admitted EXCEPT ![key] = Append(@, now)]
                /\ lenAtAdmit' = Admitted(lenAtAdmit, key, Len(kept) + 1)
                /\ UNCHANGED resp
    /\ UNCHANGED <<now, authVars>>

\* dispatch, from its entry to its first await (line 68 or 91) or to the
\* 429 response: no await lies between, so the event loop runs it as one step.
Dispatch(peer, path) ==
    /\ InFlight < MaxReq
    /\ LET key == ClientKey(peer)
           kept == Purge(Window(clients, key), now)
       IN  IF path \in ExemptPaths
           THEN /\ req' = [req EXCEPT !["exempt"] = @ + 1]
                /\ UNCHANGED <<clients, admitted, resp, lenAtAdmit>>
           ELSE IF LimitReached(kept)
           THEN /\ clients' = StoreWindow(clients, key, kept)
                /\ resp' = RateLimitExceeded(key)
                /\ UNCHANGED <<req, admitted, lenAtAdmit>>
           ELSE /\ clients' = StoreWindow(clients, key, Append(kept, now))
                /\ req' = [req EXCEPT ![key] = @ + 1]
                /\ admitted' = [admitted EXCEPT ![key] = Append(@, now)]
                /\ lenAtAdmit' = Admitted(lenAtAdmit, key, Len(kept) + 1)
                /\ UNCHANGED resp
    /\ UNCHANGED <<now, authVars>>

\* The health-check branch after its await: return await call_next(request)
ExemptReturn ==
    /\ req["exempt"] > 0
    /\ req' = [req EXCEPT !["exempt"] = @ - 1]
    /\ resp' = [NoResp EXCEPT !.status = 200]
    /\ UNCHANGED <<now, clients, admitted, lenAtAdmit, authVars>>

\* dispatch after await call_next: the rate limit headers, read from the
\* window as it is when the handler has returned.
Finish(key) ==
    /\ req[key] > 0
    /\ req' = [req EXCEPT ![key] = @ - 1]
    /\ resp' = [NoResp EXCEPT
                   !.status = 200, !.key = key,
                   !.remaining = Max(0, Calls - Len(clients[key])),
                   !.headers = RateLimitHeaders(Max(0, Calls - Len(clients[key])))]
    /\ IF lenAtAdmit.tracked
       THEN \E c \in 1..Calls : /\ lenAtAdmit.bag[key][c] > 0
                                /\ lenAtAdmit' = Left(lenAtAdmit, key, c)
       ELSE UNCHANGED lenAtAdmit
    /\ UNCHANGED <<now, clients, admitted, authVars>>

\* Time passes between two steps of the event loop.  The history forgets the
\* admissions that have left the trailing period, and vres, the outcome of a
\* verification at the current instant, is cleared.
Tick ==
    /\ now < MaxTime
    /\ now' = now + 1
    /\ admitted' = [k \in Keys |->
           SelectSeq(admitted[k], LAMBDA timestamp : InTrailing(timestamp, now + 1))]
    /\ vres' = NoVerify
    /\ UNCHANGED <<clients, req, resp, lenAtAdmit, settings, loginRes, held>>

(***************************************************************************)
(* Settings (app/core/config.py).  None and the empty string are both      *)
(* falsy and both written "".                                              *)
(***************************************************************************)
NoSettings ==
    [LDAP_ENABLED |-> FALSE, LDAP_SERVER |-> "", LDAP_DOMAIN |-> "",
     LDAP_BASE_DN |-> ""]

SettingsSet ==
    {NoSettings} \cup
    [LDAP_ENABLED : {TRUE}, LDAP_SERVER : {"", "ldap://dc"},
     LDAP_DOMAIN : {"", "corp.local"}, LDAP_BASE_DN : {"", "dc=corp"}]

\* A second of the token service's clock, in ticks.
TicksPerSecond == 2
\* ACCESS_TOKEN_EXPIRE_MINUTES and REFRESH_TOKEN_EXPIRE_DAYS, scaled to ticks.
AccessExpire == 2
RefreshExpire == 4
\* The longest expires_delta a caller of the token service supplies.
MaxDelta == 3

Usernames == {"", "alice", "test@example.com"}
Passwords == {"", "testpassword", "wrong"}

(***************************************************************************)
(* Directory adapter: app/utils/ldap.py                                    *)
(***************************************************************************)
\* What the directory server does during one call of the adapter: whether
\* Server() can be built, the service (or anonymous) bind, the search, and
\* the bind with the user's secret.  A step that fails ends the call, so the
\* later steps of such a run are left at their first value.
DirEnv ==
    {e \in [server : {"ok", "error"},
            svcBind : {"ok", "LDAPBindError", "LDAPSocketOpenError"},
            search : {"none", "full", "bare", "LDAPSocketOpenError"},
            userBind : {"ok", "rejected", "LDAPSocketOpenError"}] :
        /\ e.server = "error" => e.svcBind = "ok"
        /\ (e.server = "error" \/ e.svcBind # "ok") =>
               e.search = "none" /\ e.userBind = "ok"}

Return(v) == [kind |-> "return", value |-> v]
Raise(e) == [kind |-> "raise", exc |-> e]
None == [none |-> TRUE]

\* ldap3's hierarchy: LDAPBindError and LDAPSocketOpenError are LDAPExceptions.
IsLDAPBindError(e) == e = "LDAPBindError"
IsLDAPException(e) == e \in {"LDAPBindError", "LDAPSocketOpenError"}

\* The mail and cn attributes the directory holds for an entry.
MailAttr(username) == username \o "@mail.corp.example"
CnAttr(username) == "Dr. " \o username

UserInfo(email, full_name, username) ==
    [email |-> email, full_name |-> full_name, username |-> username]

\* create_ldap_server: no server address, or a Server() that throws, both
\* leave as LDAPConnectionError.
CreateLdapServer(s, env) ==
    IF s.LDAP_SERVER = "" THEN Raise("LDAPConnectionError")
    ELSE IF env.server = "error" THEN Raise("LDAPConnectionError")
    ELSE Return("server")

\* The entry's mapped attributes, as the two strategies read them.
EntryEmail(env, username) == IF env.search = "full" THEN MailAttr(username) ELSE ""
EntryFullName(env, username) == IF env.search = "full" THEN CnAttr(username) ELSE ""

Or(value, fallback) == IF value = "" THEN fallback ELSE value

\* _authenticate_upn
AuthenticateUpn(s, username, password, env) ==
    LET upn == username \o "@" \o s.LDAP_DOMAIN
    IN  IF env.userBind = "LDAPSocketOpenError" THEN Raise("LDAPSocketOpenError")
        ELSE IF env.userBind = "rejected" THEN Return(None)
        ELSE IF s.LDAP_BASE_DN # "" /\ env.search = "LDAPSocketOpenError"
        THEN Raise("LDAPSocketOpenError")
        ELSE IF s.LDAP_BASE_DN # "" /\ env.search \in {"full", "bare"}
        THEN Return(UserInfo(Or(EntryEmail(env, username), upn),
                             Or(EntryFullName(env, username), username), username))
        ELSE Return(UserInfo(upn, username, username))

SearchLdapUserRaisesOnMissing(s, username, env) ==
    IF env.svcBind # "ok" THEN Raise(env.svcBind)
    ELSE IF env.search = "LDAPSocketOpenError" THEN Raise("LDAPSocketOpenError")
    ELSE IF env.search = "none" THEN Raise("LDAPNoSuchObjectResult")
    ELSE Return(UserInfo(Or(EntryEmail(env, username), username \o "@unknown"),
                         Or(EntryFullName(env, username), username), username))

\* _search_ldap_user: the service (or anonymous) bind with auto_bind=True,
\* the search, and the attributes of the first entry.
SearchLdapUser(s, username, env) ==
    IF env.svcBind # "ok" THEN Raise(env.svcBind)
    ELSE IF env.search = "LDAPSocketOpenError" THEN Raise("LDAPSocketOpenError")
    ELSE IF env.search = "none" THEN Return(None)
    ELSE Return(UserInfo(Or(EntryEmail(env, username), username \o "@unknown"),
                         Or(EntryFullName(env, username), username), username))

AuthenticateSearchBindRaisesOnMissing(s, username, password, env) ==
    LET search_result == SearchLdapUser(s, username, env)
    IN  IF search_result.kind = "raise" THEN search_result
        ELSE IF search_result.value = None THEN Raise("LDAPAuthenticationError")
        ELSE IF env.userBind = "LDAPSocketOpenError" THEN Raise("LDAPSocketOpenError")
        ELSE IF env.userBind = "rejected" THEN Return(None)
        ELSE search_result

\* _authenticate_search_bind
AuthenticateSearchBind(s, username, password, env) ==
    LET search_result == SearchLdapUser(s, username, env)
    IN  IF search_result.kind = "raise" THEN search_result
        ELSE IF search_result.value = None THEN Return(None)
        ELSE IF env.userBind = "LDAPSocketOpenError" THEN Raise("LDAPSocketOpenError")
        ELSE IF env.userBind = "rejected" THEN Return(None)
        ELSE search_result

LdapTryBodyPrefersSearchBind(s, username, password, env) ==
    LET server == CreateLdapServer(s, env)
    IN  IF server.kind = "raise" THEN server
        ELSE IF s.LDAP_BASE_DN # "" THEN AuthenticateSearchBind(s, username, password, env)
        ELSE IF s.LDAP_DOMAIN # "" THEN AuthenticateUpn(s, username, password, env)
        ELSE Raise("LDAPAuthenticationError")

\* The body of the try block of authenticate_ldap_user.
LdapTryBody(s, username, password, env) ==
    LET server == CreateLdapServer(s, env)
    IN  IF server.kind = "raise" THEN server
        ELSE IF s.LDAP_DOMAIN # "" THEN AuthenticateUpn(s, username, password, env)
        ELSE IF s.LDAP_BASE_DN # "" THEN AuthenticateSearchBind(s, username, password, env)
        ELSE Raise("LDAPAuthenticationError")

\* The except clauses of authenticate_ldap_user, in their order: our own
\* exceptions are plain Exceptions and take the last clause.
LdapExcept(e) ==
    IF IsLDAPBindError(e) THEN "LDAPAuthenticationError"
    ELSE IF IsLDAPException(e) THEN "LDAPConnectionError"
    ELSE "LDAPAuthenticationError"

AuthenticateLdapUserWithoutEmptyCheck(username, password, s, env) ==
    IF ~s.LDAP_ENABLED THEN Raise("LDAPAuthenticationError")
    ELSE LET r == LdapTryBody(s, username, password, env)
         IN  IF r.kind = "raise" THEN Raise(LdapExcept(r.exc)) ELSE r

\* authenticate_ldap_user
AuthenticateLdapUser(username, password, s, env) ==
    IF ~s.LDAP_ENABLED THEN Raise("LDAPAuthenticationError")
    ELSE IF username = "" \/ password = "" THEN Return(None)
    ELSE LET r == LdapTryBody(s, username, password, env)
         IN  IF r.kind = "raise" THEN Raise(LdapExcept(r.exc)) ELSE r

\* One operation on the directory and how it ended.
Op(op, result) == [op |-> op, result |-> result]

\* The directory operations of _authenticate_upn, in their order: the bind
\* as username@domain and, once bound and with a base DN, the search.
UpnOps(s, env) ==
    IF env.userBind # "ok" THEN <<Op("bind_user", env.userBind)>>
    ELSE IF s.LDAP_BASE_DN # ""
    THEN <<Op("bind_user", "ok"), Op("search", env.search)>>
    ELSE <<Op("bind_user", "ok")>>

\* The directory operations of _authenticate_search_bind: the service (or
\* anonymous) bind, the search and, when the search gave an entry, the bind
\* as its DN with the user's secret.
SearchBindOps(s, env) ==
    IF env.svcBind # "ok" THEN <<Op("bind_service", env.svcBind)>>
    ELSE IF env.search \in {"full", "bare"}
    THEN <<Op("bind_service", "ok"), Op("search", env.search),
           Op("bind_user", env.userBind)>>
    ELSE <<Op("bind_service", "ok"), Op("search", env.search)>>

\* The directory operations of one call of authenticate_ldap_user.
DirectoryOps(username, password, s, env) ==
    IF ~s.LDAP_ENABLED \/ username = "" \/ password = "" \/ s.LDAP_SERVER = ""
    THEN << >>
    ELSE IF env.server # "ok" THEN <<Op("Server", env.server)>>
    ELSE IF s.LDAP_DOMAIN # "" THEN <<Op("Server", "ok")>> \o UpnOps(s, env)
    ELSE IF s.LDAP_BASE_DN # "" THEN <<Op("Server", "ok")>> \o SearchBindOps(s, env)
    ELSE <<Op("Server", "ok")>>

(***************************************************************************)
(* Token service: app/utils/security.py                                    *)
(***************************************************************************)
\* A timedelta below zero: timedelta(...) takes any sign, and neither
\* create_access_token nor create_refresh_token looks at it.
NegDelta == 0 - 1
\* expires_delta=None.
NoDelta == 0 - 2

\* jwt.encode turns the exp datetime into whole seconds (timegm of its
\* utctimetuple), and jwt.decode reads the clock the same way.
Seconds(ticks) == ticks \div TicksPerSecond

Jwt(sub, type, expire) ==
    [form |-> "jwt", sub |-> sub, type |-> type, exp |-> Seconds(expire),
     sig |-> "valid"]

\* if expires_delta: ... else the configured default (a zero timedelta is falsy).
Expire(expires_delta, default, t) ==
    IF expires_delta # NoDelta /\ expires_delta # 0
    THEN t + expires_delta ELSE t + default

\* create_access_token(data={"sub": sub}, expires_delta) at time t
CreateAccessToken(sub, expires_delta, t) ==
    Jwt(sub, "access", Expire(expires_delta, AccessExpire, t))

\* create_refresh_token(data={"sub": sub}, expires_delta) at time t
CreateRefreshToken(sub, expires_delta, t) ==
    Jwt(sub, "refresh", Expire(expires_delta, RefreshExpire, t))

\* python-jose's exceptions: ExpiredSignatureError and JWTClaimsError are
\* JWTErrors.
IsJWTError(e) == e \in {"JWTError", "ExpiredSignatureError", "JWTClaimsError"}

\* jwt.decode(token, SECRET_KEY, algorithms=[ALGORITHM]) at time t: the
\* format, the signature, then exp (expired when exp < now, in seconds).
JwtDecode(token, t) ==
    IF token.form # "jwt" THEN Raise("JWTError")
    ELSE IF token.sig # "valid" THEN Raise("JWTError")
    ELSE IF token.exp < Seconds(t) THEN Raise("ExpiredSignatureError")
    ELSE Return([sub |-> token.sub, type |-> token.type, exp |-> token.exp])

CaughtOnlyExactJWTError(e) == e = "JWTError"

\* except JWTError: return None
CaughtByVerifyToken(e) == IsJWTError(e)

TokenData(email) == [email |-> email]

TypeIgnored(token_type_claim, token_type) == FALSE

\* token_type_claim != token_type
TypeMismatch(token_type_claim, token_type) == token_type_claim # token_type

SubjectForced(payload) == "test@example.com"

\* email = payload.get("sub")
PayloadSubject(payload) == payload.sub

\* verify_token(token, token_type) at time t
VerifyToken(token, token_type, t) ==
    LET decoded == JwtDecode(token, t)
    IN  IF decoded.kind = "raise"
        THEN IF CaughtByVerifyToken(decoded.exc) THEN Return(None) ELSE decoded
        ELSE IF TypeMismatch(decoded.value.type, token_type) THEN Return(None)
        ELSE Return(TokenData(PayloadSubject(decoded.value)))

\* "@" in str(token_data.email), for the strings of the model.
HasAt(email) ==
    email \in {"test@example.com"} \cup {u \o "@corp.local" : u \in Usernames}
               \cup {MailAttr(u) : u \in Usernames}
               \cup {u \o "@unknown" : u \in Usernames}

CredentialsException ==
    [kind |-> "raise", exc |-> "HTTPException", status |-> 401,
     detail |-> "Could not validate credentials"]

\* get_current_user(token) at time t: verify_token with its default kind.
GetCurrentUser(token, t) ==
    LET token_data == VerifyToken(token, "access", t)
    IN  IF token_data.kind = "raise" THEN token_data
        ELSE IF token_data.value = None THEN CredentialsException
        ELSE Return([email |-> IF HasAt(token_data.value.email)
                               THEN token_data.value.email ELSE "test@example.com",
                     full_name |-> "Mock User"])

\* authenticate_user(email, password): the local credential check.
AuthenticateUser(email, password) ==
    IF email = "test@example.com" /\ password = "testpassword"
    THEN Return([email |-> email, full_name |-> "Test User"])
    ELSE Return(None)

(***************************************************************************)
(* Login orchestrator: app/api/v1/endpoints/auth.py                        *)
(***************************************************************************)
SubjectTypedUsername(form_username, ldap_user) == form_username

\* user_email = ldap_user["email"]
LdapLoginSubject(form_username, ldap_user) == ldap_user.email

CatchesOnlyConnectionError(e) == e = "LDAPConnectionError"

\* except LDAPConnectionError: pass / except LDAPAuthenticationError: pass
LoginCatches(e) == e \in {"LDAPConnectionError", "LDAPAuthenticationError"}

\* The access and the refresh token for one subject, returned as Token(...).
MintPair(sub, t) ==
    [kind |-> "Token",
     access_token |-> CreateAccessToken(sub, AccessExpire, t),
     refresh_token |-> CreateRefreshToken(sub, RefreshExpire, t),
     token_type |-> "bearer"]

LocalFallbackMintsForUserId(username, password, t) == MintPair("1", t)

\* "Fall back to local authentication": the call of authenticate_user is
\* commented out, the tokens are created for form_data.username as it is.
LocalFallback(username, password, t) == MintPair(username, t)

Skipped == [kind |-> "skipped"]

\* login(form_data) at time t: what the directory step gave (ldap), the
\* directory operations it made (ops), whether control reached the local step
\* (local), and what login returned (out).
LoginFlow(username, password, s, env, t) ==
    LET ldap == IF s.LDAP_ENABLED
                THEN AuthenticateLdapUser(username, password, s, env)
                ELSE Skipped
        ops == IF s.LDAP_ENABLED THEN DirectoryOps(username, password, s, env)
               ELSE << >>
    IN  IF ldap.kind = "return" /\ ldap.value # None
        THEN [ldap |-> ldap, ops |-> ops, local |-> FALSE,
              out |-> MintPair(LdapLoginSubject(username, ldap.value), t)]
        ELSE IF ldap.kind = "raise" /\ ~LoginCatches(ldap.exc)
        THEN [ldap |-> ldap, ops |-> ops, local |-> FALSE, out |-> ldap]
        ELSE [ldap |-> ldap, ops |-> ops, local |-> TRUE,
              out |-> LocalFallback(username, password, t)]

\* POST /login.  login has no await: the directory call is synchronous.
Login(username, password, env) ==
    /\ loginRes' = [called |-> TRUE, username |-> username, password |-> password,
                    at |-> now,
                    flow |-> LoginFlow(username, password, settings, env, now)]
    /\ held' = NoHeld
    /\ vres' = NoVerify
    /\ UNCHANGED <<govVars, settings>>

\* The caller takes one token of the pair login returned.
Present(which) ==
    /\ loginRes.called
    /\ loginRes.flow.out.kind = "Token"
    /\ held' = [tok |-> IF which = "access" THEN loginRes.flow.out.access_token
                        ELSE loginRes.flow.out.refresh_token,
                origin |-> "login", kind |-> which,
                sub |-> loginRes.flow.out.access_token.sub,
                iat |-> loginRes.at,
                ttl |-> IF which = "access" THEN AccessExpire ELSE RefreshExpire]
    /\ vres' = NoVerify
    /\ UNCHANGED <<govVars, settings, loginRes>>

Subjects == Usernames
Kinds == {"access", "refresh"}
Deltas == {NoDelta} \cup (NegDelta..MaxDelta)

\* A direct call of create_access_token / create_refresh_token.
Issue(sub, kind, expires_delta) ==
    /\ held' = [tok |-> IF kind = "access"
                        THEN CreateAccessToken(sub, expires_delta, now)
                        ELSE CreateRefreshToken(sub, expires_delta, now),
                origin |-> "issue", kind |-> kind, sub |-> sub, iat |-> now,
                ttl |-> expires_delta]
    /\ loginRes' = NoLogin
    /\ vres' = NoVerify
    /\ UNCHANGED <<govVars, settings>>

\* The caller presents something else than what was issued: the same claims
\* under a signature that does not match, or a string that is no token.
Tamper(how) ==
    /\ held.tok.form = "jwt"
    /\ held.tok.sig = "valid"
    /\ held' = [held EXCEPT !.tok = IF how = "signature"
                                    THEN [held.tok EXCEPT !.sig = "bad"]
                                    ELSE [form |-> "garbage"]]
    /\ vres' = NoVerify
    /\ UNCHANGED <<govVars, settings, loginRes>>

\* A call of verify_token(token, token_type).
Verify(token_type) ==
    /\ held.tok # NoToken
    /\ vres' = [called |-> TRUE, fn |-> "verify_token", expected |-> token_type,
                result |-> VerifyToken(held.tok, token_type, now)]
    /\ UNCHANGED <<govVars, settings, loginRes, held>>

\* A request to an endpoint that depends on get_current_user.
CurrentUser ==
    /\ held.tok # NoToken
    /\ vres' = [called |-> TRUE, fn |-> "get_current_user", expected |-> "access",
                result |-> GetCurrentUser(held.tok, now)]
    /\ UNCHANGED <<govVars, settings, loginRes, held>>

\* POST /refresh: Depends(get_current_user) on the presented token, then a
\* new pair for current_user.email with the configured expiry times.
Refresh ==
    /\ held.tok # NoToken
    /\ LET current_user == GetCurrentUser(held.tok, now)
       IN  vres' = [called |-> TRUE, fn |-> "refresh_token", expected |-> "access",
                    result |-> IF current_user.kind = "raise" THEN current_user
                               ELSE MintPair(current_user.value.email, now)]
    /\ UNCHANGED <<govVars, settings, loginRes, held>>

\* create_app and lifespan: the settings are read for the title, the docs
\* URLs, CORS and the allowed hosts; no LDAP_* field is looked at and nothing
\* is raised, whatever they hold.
Startup(s) == "started"

LoginInit ==
    /\ now = 0
    /\ clients = << >>
    /\ req = [k \in Keys \cup {"exempt"} |-> 0]
    /\ resp = NoResp
    /\ admitted = [k \in Keys |-> << >>]
    /\ lenAtAdmit = NoHistory
    /\ settings \in {s \in SettingsSet : Startup(s) = "started"}
    /\ loginRes = NoLogin
    /\ held = NoHeld
    /\ vres = NoVerify

LoginNext ==
    \/ \E u \in Usernames, p \in Passwords, env \in DirEnv : Login(u, p, env)
    \/ \E which \in Kinds : Present(which)
    \/ \E token_type \in Kinds : Verify(token_type)
    \/ CurrentUser
    \/ Refresh
    \/ Tick

\* The orchestrator: logins under every configuration, and the use of the
\* tokens they return.
SpecLogin == LoginInit /\ [][LoginNext]_vars

TokenInit ==
    /\ now = 0
    /\ clients = << >>
    /\ req = [k \in Keys \cup {"exempt"} |-> 0]
    /\ resp = NoResp
    /\ admitted = [k \in Keys |-> << >>]
    /\ lenAtAdmit = NoHistory
    /\ settings = NoSettings
    /\ loginRes = NoLogin
    /\ held = NoHeld
    /\ vres = NoVerify

TokenNext ==
    \/ \E sub \in Subjects, kind \in Kinds, d \in Deltas : Issue(sub, kind, d)
    \/ \E how \in {"signature", "garbage"} : Tamper(how)
    \/ \E token_type \in Kinds : Verify(token_type)
    \/ CurrentUser
    \/ Tick

\* The token service alone: tokens issued for every subject, kind and ttl,
\* presented as issued or altered, at every instant.
SpecToken == TokenInit /\ [][TokenNext]_vars

GovInit ==
    /\ now = 0
    /\ clients = << >>
    /\ req = [k \in Keys \cup {"exempt"} |-> 0]
    /\ resp = NoResp
    /\ admitted = [k \in Keys |-> << >>]
    /\ lenAtAdmit = NoHistory
    /\ settings = NoSettings
    /\ loginRes = NoLogin
    /\ held = NoHeld
    /\ vres = NoVerify

GovNext ==
    \/ \E peer \in Peers, path \in Paths : Dispatch(peer, path)
    \/ ExemptReturn
    \/ \E key \in Keys : Finish(key)
    \/ Tick

SpecGov == GovInit /\ [][GovNext]_vars

TrackInit ==
    /\ now = 0
    /\ clients = << >>
    /\ req = [k \in Keys \cup {"exempt"} |-> 0]
    /\ resp = NoResp
    /\ admitted = [k \in Keys |-> << >>]
    /\ lenAtAdmit = [tracked |-> TRUE,
                     bag |-> [k \in Keys |-> [c \in 1..Calls |-> 0]]]
    /\ settings = NoSettings
    /\ loginRes = NoLogin
    /\ held = NoHeld
    /\ vres = NoVerify

\* The governor, with the window length at admission remembered for each
\* request that is inside dispatch.
SpecTrack == TrackInit /\ [][GovNext]_vars

(***************************************************************************)
(* The application (app/core/app.py): login requests behind the governor.  *)
(***************************************************************************)
\* The add_middleware calls of create_app, in their order (outside
\* production, where TrustedHostMiddleware is not added).
AddedMiddleware ==
    <<"CORSMiddleware", "TimingMiddleware", "LoggingMiddleware",
      "RateLimitMiddleware">>

\* add_middleware inserts at the head of user_middleware: the middleware
\* added last is the outermost, the first to see a request.
MiddlewareStack ==
    [i \in 1..Len(AddedMiddleware) |->
        AddedMiddleware[Len(AddedMiddleware) + 1 - i]]

\* login is running: it was entered and has not returned.  It has no await
\* and calls authenticate_ldap_user directly, so from its entry to its
\* return the event loop runs nothing else.
Blocking == loginRes # NoLogin /\ ~loginRes.called

\* The event loop runs dispatch for a new request.
AppDispatch(peer, path) == ~Blocking /\ Dispatch(peer, path)

\* The event loop resumes a health check after its handler.
AppExemptReturn == ~Blocking /\ ExemptReturn

\* call_next of an admitted request reaches login: the handler starts.
EnterLogin(key, username, password) ==
    /\ ~Blocking
    /\ req[key] > 0
    /\ loginRes' = [called |-> FALSE, key |-> key, username |-> username,
                    password |-> password]
    /\ UNCHANGED <<govVars, settings, held, vres>>

\* login returns, the directory having behaved as env, and dispatch, resumed
\* after call_next, adds the rate limit headers.  An exception login lets
\* through ends dispatch at call_next.
ReturnLogin(env) ==
    /\ Blocking
    /\ LET key == loginRes.key
           flow == LoginFlow(loginRes.username, loginRes.password, settings,
                             env, now)
       IN  /\ loginRes' = [called |-> TRUE, username |-> loginRes.username,
                           password |-> loginRes.password,
                           at |-> now, flow |-> flow]
           /\ req' = [req EXCEPT ![key] = @ - 1]
           /\ resp' = IF flow.out.kind = "raise"
                      THEN [NoResp EXCEPT !.status = 500, !.key = key]
                      ELSE [NoResp EXCEPT
                              !.status = 200, !.key = key,
                              !.remaining = Max(0, Calls - Len(clients[key])),
                              !.headers = RateLimitHeaders(
                                  Max(0, Calls - Len(clients[key])))]
    /\ IF lenAtAdmit.tracked
       THEN \E c \in 1..Calls : /\ lenAtAdmit.bag[loginRes.key][c] > 0
                                /\ lenAtAdmit' = Left(lenAtAdmit, loginRes.key, c)
       ELSE UNCHANGED lenAtAdmit
    /\ UNCHANGED <<now, clients, admitted, settings, held, vres>>

\* The directory configurations with a server and a strategy.
AppSettings ==
    {s \in SettingsSet : /\ s.LDAP_ENABLED
                         /\ s.LDAP_SERVER # ""
                         /\ s.LDAP_DOMAIN # "" \/ s.LDAP_BASE_DN # ""}

\* The directory answers, rejects, or cannot be reached.
AppEnvs ==
    {e \in DirEnv : /\ e.server = "ok" /\ e.svcBind = "ok"
                    /\ e.search \in {"none", "full"}
                    /\ e.search = "none" => e.userBind = "ok"}

AppInit ==
    /\ now = 0
    /\ clients = << >>
    /\ req = [k \in Keys \cup {"exempt"} |-> 0]
    /\ resp = NoResp
    /\ admitted = [k \in Keys |-> << >>]
    /\ lenAtAdmit = NoHistory
    /\ settings \in AppSettings
    /\ loginRes = NoLogin
    /\ held = NoHeld
    /\ vres = NoVerify

AppNext ==
    \/ \E peer \in Addrs, path \in Paths : AppDispatch(peer, path)
    \/ AppExemptReturn
    \/ \E key \in Keys : EnterLogin(key, "alice", "wrong")
    \/ \E env \in AppEnvs : ReturnLogin(env)
    \/ Tick

\* One client's logins through the middleware stack.
SpecApp == AppInit /\ [][AppNext]_vars

(***************************************************************************)
(* Claims about the Request Governor, checked under SpecGov.               *)
(***************************************************************************)
\* The timestamps of window that a purge at current_time leaves, when it
\* drops those that satisfy Dropped.
Remaining(window, current_time, Dropped(_, _)) ==
    SelectSeq(window, LAMBDA timestamp : ~Dropped(timestamp, current_time))

StrictlyOlder(timestamp, current_time) == timestamp < current_time - Period
OlderOrEqual(timestamp, current_time) == timestamp <= current_time - Period

\* A step is a governed request of key: it changes the key's window, admits a
\* request of the key, or answers the key with 429.
GovernedStep(key) ==
    /\ now' = now
    /\ \/ Window(clients', key) # Window(clients, key)
       \/ admitted'[key] # admitted[key]
       \/ resp' # resp /\ resp'.status = 429 /\ resp'.key = key

\* What the governor does with a governed request of key, when its purge
\* drops the timestamps that satisfy Dropped.
GovernorRule(key, Dropped(_, _)) ==
    LET kept == Remaining(Window(clients, key), now, Dropped)
    IN  IF Len(kept) >= Calls
        THEN /\ Window(clients', key) = kept
             /\ resp'.status = 429 /\ resp'.key = key
             /\ req' = req
        ELSE /\ Window(clients', key) = Append(kept, now)
             /\ req' = [req EXCEPT ![key] = @ + 1]
             /\ resp' = resp

\* C1, as stated: a governed request at time now first drops exactly the
\* timestamps strictly older than now - T (one equal to now - T is kept),
\* then rejects if N or more remain, and otherwise appends now and admits.
C1_AsStated ==
    [][\A key \in Keys : GovernedStep(key) => GovernorRule(key, StrictlyOlder)]_vars

\* C1, amended: a governed request at time now first drops exactly the
\* timestamps older than or equal to now - T (one equal to now - T is
\* dropped), then rejects if N or more remain, and otherwise appends now and
\* admits: the first N requests are admitted, the next is rejected, and a
\* request made once T has passed since the first is admitted again.
C1_Governor ==
    [][\A key \in Keys : GovernedStep(key) => GovernorRule(key, OlderOrEqual)]_vars

\* A client that was answered 429 has, after the period has passed, a full
\* window again whose timestamps are all later than the period.
C1_Witness ==
    \E key \in DOMAIN clients :
        /\ resp.status = 429 /\ resp.key = key
        /\ now > Period
        /\ Len(clients[key]) = Calls
        /\ clients[key][1] >= Period
        /\ clients[key][Calls] = now

\* The admissions of key whose timestamp lies in the trailing period
\* (current_time - Period, current_time].
TrailingCount(key, current_time) ==
    Cardinality({i \in DOMAIN admitted[key] :
                    InTrailing(admitted[key][i], current_time)})

\* C2: for every client key and every trailing period of length T, the
\* requests of that client admitted within the period are at most N.  The
\* period is (t - T, t]; the invariant holds at every instant t the clock
\* reaches, so it covers every trailing period.
C2_AtMostNPerPeriod ==
    \A key \in Keys : TrailingCount(key, now) <= Calls

\* A client has used its whole capacity in a period that has slid: N
\* admissions, not all at the same instant, after the first period ended.
C2_Witness ==
    \E key \in Keys :
        /\ TrailingCount(key, now) = Calls
        /\ now > Period
        /\ admitted[key][1] < admitted[key][Calls]

\* C3: the check-then-append is atomic per client key.  Every admission is
\* decided on the true number of that client's admissions inside the
\* trailing period, those of requests still in their handler included, it
\* finds fewer than N of them, and it is itself in the window when the step
\* ends: two concurrent requests never both take the last slot.
C3_AtomicCheckThenAppend ==
    [][\A key \in Keys :
          admitted'[key] # admitted[key] /\ now' = now =>
              /\ Len(Purge(Window(clients, key), now)) = TrailingCount(key, now)
              /\ TrailingCount(key, now) < Calls
              /\ Len(clients'[key]) = TrailingCount(key, now) + 1]_vars

\* N requests of one client are in their handlers at the same time and one
\* more request of that client, arriving meanwhile, was rejected.
C3_Witness ==
    \E key \in Keys :
        /\ req[key] = Calls
        /\ resp.status = 429 /\ resp.key = key
        /\ TrailingCount(key, now) = Calls

\* C22, as stated: the map retains no key whose window holds no timestamp
\* inside the trailing period: such a key is evicted.
C22_AsStated ==
    \A key \in DOMAIN clients : Purge(clients[key], now) # << >>

\* C23, as stated: the response to an admitted request reports as remaining
\* capacity N minus the length its client's window had when it was admitted
\* (its own timestamp counted), a number from 0 to N - 1, whatever other
\* requests of the client were handled while its handler ran.
C23_AsStated ==
    [][\A key \in Keys :
          (req'[key] = req[key] - 1 /\ resp'.status = 200 /\ resp'.key = key) =>
              \E c \in 1..Calls :
                  /\ lenAtAdmit'.bag[key][c] = lenAtAdmit.bag[key][c] - 1
                  /\ resp'.remaining = Calls - c
                  /\ resp'.headers["X-RateLimit-Remaining"] = Calls - c]_vars

\* C28: in every reachable state each client's window holds at most N
\* timestamps, in non-decreasing order.
C28_WindowBoundedAndOrdered ==
    \A key \in DOMAIN clients :
        /\ Len(clients[key]) <= Calls
        /\ \A i, j \in DOMAIN clients[key] :
               i < j => clients[key][i] <= clients[key][j]

\* Both clients have a full window; one of them holds timestamps of
\* different instants, none of the first tick, all inside the trailing
\* period, and requests of it are still in their handlers.
C28_Witness ==
    /\ \A key \in Keys : key \in DOMAIN clients /\ Len(clients[key]) = Calls
    /\ \E key \in Keys : /\ clients[key][1] < clients[key][Calls]
                         /\ clients[key][1] > 0
                         /\ Len(admitted[key]) = Calls
                         /\ req[key] > 0

(***************************************************************************)
(* Claims about the login orchestrator, checked under SpecLogin.           *)
(***************************************************************************)
\* The three outcomes of the directory adapter, as login sees them.
Resolved(ldap) == ldap.kind = "return" /\ ldap.value # None
Rejected(ldap) == ldap.kind = "return" /\ ldap.value = None
Unavailable(ldap) == ldap.kind = "raise"

\* C4, as stated: login returns a credential pair only if the directory
\* adapter returned Resolved or the local verification of the supplied
\* username and secret succeeded; otherwise it fails and mints no token.
C4_AsStated ==
    loginRes.called /\ loginRes.flow.out.kind = "Token" =>
        \/ Resolved(loginRes.flow.ldap)
        \/ AuthenticateUser(loginRes.username, loginRes.password).value # None

\* C5: with directory authentication enabled, when the adapter returns None
\* or raises LDAPAuthenticationError or LDAPConnectionError, login goes on to
\* the local step, and no exception of the adapter leaves login.
C5_DirectoryTroubleFallsThrough ==
    /\ loginRes.called /\ Unavailable(loginRes.flow.ldap) =>
           loginRes.flow.ldap.exc \in {"LDAPAuthenticationError", "LDAPConnectionError"}
    /\ loginRes.called
         /\ (Rejected(loginRes.flow.ldap) \/ Unavailable(loginRes.flow.ldap)) =>
           /\ loginRes.flow.local
           /\ loginRes.flow.out.kind # "raise"

\* The directory rejected a bind (LDAPBindError inside the adapter) and login
\* went on to the local step.
C5_Witness ==
    /\ loginRes.called
    /\ settings.LDAP_ENABLED
    /\ Unavailable(loginRes.flow.ldap)
    /\ loginRes.flow.ldap.exc = "LDAPAuthenticationError"
    /\ settings.LDAP_SERVER # ""
    /\ loginRes.flow.local

\* C6: when the directory adapter returns Resolved, login returns one
\* access-kind and one refresh-kind token whose subjects both equal the
\* resolved identity's email, not the username that was typed.
C6_ResolvedSubjectIsEmail ==
    loginRes.called /\ Resolved(loginRes.flow.ldap) =>
        /\ loginRes.flow.out.kind = "Token"
        /\ loginRes.flow.out.access_token.type = "access"
        /\ loginRes.flow.out.refresh_token.type = "refresh"
        /\ loginRes.flow.out.access_token.sub = loginRes.flow.ldap.value.email
        /\ loginRes.flow.out.refresh_token.sub = loginRes.flow.ldap.value.email

\* alice was resolved by the directory to an email read from her entry.
C6_Witness ==
    /\ loginRes.called
    /\ Resolved(loginRes.flow.ldap)
    /\ loginRes.username = "alice"
    /\ loginRes.flow.ldap.value.email = "alice@mail.corp.example"
    /\ loginRes.flow.out.access_token.sub # loginRes.username

\* The health and liveness endpoints: /health of the health router, mounted
\* at the root and under the API prefix.
HealthPaths == {"/health", "/api/v1/health"}

\* The window of key is full at current_time: a governed request is rejected.
Full(key, current_time) ==
    LimitReached(Purge(Window(clients, key), current_time))

\* dispatch hands the request to its handler and leaves the windows, their
\* keys and the last response as they are.
BypassStep(peer, path) ==
    /\ Dispatch(peer, path)
    /\ req'["exempt"] = req["exempt"] + 1
    /\ \A key \in Keys : req'[key] = req[key]
    /\ clients' = clients
    /\ resp' = resp

\* C12: in every state, whatever the windows hold, a request of any client
\* on a health path is passed to its handler and leaves the window state of
\* every client (keys and timestamps) unchanged.
C12_ExemptBypass ==
    InFlight < MaxReq =>
        \A peer \in Peers, path \in HealthPaths : ENABLED BypassStep(peer, path)

\* A client whose window is full has just been rejected, and a health check
\* is in its handler.
C12_Witness ==
    /\ InFlight < MaxReq
    /\ req["exempt"] > 0
    /\ \E key \in Keys : /\ Full(key, now)
                         /\ Len(Window(clients, key)) = Calls
                         /\ resp.status = 429 /\ resp.key = key

\* C13, as stated: every rejection reports the capacity N, the window length
\* T and a retry-after hint, the instant the oldest timestamp of the client's
\* window expires.
C13_AsStated ==
    resp.status = 429 =>
        /\ resp.detail.calls = Calls
        /\ resp.detail.period = Period
        /\ "Retry-After" \in DOMAIN resp.headers
        /\ \A key \in DOMAIN clients :
               key = resp.key /\ clients[key] # << >> =>
                   resp.headers["Retry-After"] = clients[key][1] + Period

\* Whether the call of the adapter made the operation, with that end.
Did(op, result) ==
    \E i \in DOMAIN loginRes.flow.ops : loginRes.flow.ops[i] = Op(op, result)

Tried(op) ==
    \E i \in DOMAIN loginRes.flow.ops : loginRes.flow.ops[i].op = op

UpnStrategy ==
    settings.LDAP_ENABLED /\ settings.LDAP_SERVER # "" /\ settings.LDAP_DOMAIN # ""

SearchBindStrategy ==
    /\ settings.LDAP_ENABLED /\ settings.LDAP_SERVER # ""
    /\ settings.LDAP_DOMAIN = "" /\ settings.LDAP_BASE_DN # ""

\* The identity made of the name alone: username@domain / username.
Synthesized(username) ==
    UserInfo(username \o "@" \o settings.LDAP_DOMAIN, username, username)

\* C15, as stated: in the UPN strategy, once the bind as username@domain has
\* succeeded the adapter returns Resolved whatever the attribute lookup
\* does, and with no lookup, a failed lookup, no entry or an entry without
\* the mapped attributes the identity is username@domain / username.
C15_AsStated ==
    loginRes.called /\ UpnStrategy /\ Did("bind_user", "ok") =>
        /\ Resolved(loginRes.flow.ldap)
        /\ ~Did("search", "full") =>
               loginRes.flow.ldap = Return(Synthesized(loginRes.username))

\* C16: in the search-then-bind strategy, when the search matches no entry
\* the adapter returns Rejected (None: neither an error nor Unavailable), no
\* bind with the user's secret is attempted, and login goes on to its local
\* step.
C16_NoEntryIsRejected ==
    loginRes.called /\ SearchBindStrategy /\ Did("search", "none") =>
        /\ Rejected(loginRes.flow.ldap)
        /\ ~Tried("bind_user")
        /\ loginRes.flow.local

\* alice is searched for after the service bind and has no entry.
C16_Witness ==
    /\ loginRes.called /\ SearchBindStrategy
    /\ loginRes.username = "alice" /\ loginRes.password = "wrong"
    /\ Did("bind_service", "ok") /\ Did("search", "none")
    /\ Rejected(loginRes.flow.ldap)
    /\ loginRes.flow.local

\* The directory as it answers for a username it does not hold: the search
\* matches nothing, a bind in that name is rejected.
GhostEnv ==
    [server |-> "ok", svcBind |-> "ok", search |-> "none", userBind |-> "rejected"]

\* C17: in both strategies, when the directory rejects the secret of an
\* existing user, the adapter gives its caller what it gives, for the same
\* name and secret, when the directory does not hold the user.
C17_NoUserEnumeration ==
    /\ loginRes.called
    /\ UpnStrategy \/ SearchBindStrategy
    /\ Did("bind_user", "rejected")
    => loginRes.flow.ldap =
           AuthenticateLdapUser(loginRes.username, loginRes.password, settings,
                                GhostEnv)

\* search-then-bind found alice and the directory rejected her secret.
C17_Witness ==
    /\ loginRes.called /\ SearchBindStrategy
    /\ loginRes.username = "alice"
    /\ Did("search", "full") /\ Did("bind_user", "rejected")
    /\ Rejected(loginRes.flow.ldap)

\* The directory is enabled with neither a domain suffix nor a base DN.
Incomplete(s) == s.LDAP_ENABLED /\ s.LDAP_DOMAIN = "" /\ s.LDAP_BASE_DN = ""

\* C18, as stated: an enabled directory configuration with neither a domain
\* nor a base DN is refused at startup: no login is served under it, and no
\* call of login is the first to meet it.
C18_AsStated == Incomplete(settings) => ~loginRes.called

\* The adapter was called with a name and a secret, the directory enabled.
AdapterRan ==
    /\ loginRes.called /\ settings.LDAP_ENABLED
    /\ loginRes.username # "" /\ loginRes.password # ""

\* The directory is misconfigured or cannot be reached: no server address,
\* Server() fails, or a bind or search ends in a connection error.
DirectoryDown ==
    \/ settings.LDAP_SERVER = ""
    \/ Did("Server", "error")
    \/ \E op \in {"bind_service", "search", "bind_user"} :
           Did(op, "LDAPSocketOpenError")

\* C26, as stated: every call of the adapter ends in exactly one of
\* Resolved, Rejected and Unavailable, and a directory that is misconfigured
\* or unreachable is reported as LDAPConnectionError, never as
\* LDAPAuthenticationError or None.
C26_AsStated ==
    AdapterRan =>
        /\ \/ Resolved(loginRes.flow.ldap)
           \/ Rejected(loginRes.flow.ldap)
           \/ Unavailable(loginRes.flow.ldap)
        /\ DirectoryDown => loginRes.flow.ldap = Raise("LDAPConnectionError")

\* The first operation on the directory once the server object exists.
FirstOp == loginRes.flow.ops[2].op

\* C27: the configuration alone selects the strategy and one strategy runs
\* per call.  With a domain the call is UPN, a base DN configured or not: it
\* starts with the bind as username@domain, makes no service bind, searches
\* only after that bind succeeded, and an empty search leaves the bound user
\* Resolved.  With a base DN only it is search-then-bind: it starts with the
\* service bind, binds as the user only after the search gave an entry, and
\* an empty search is Rejected.
C27_OneStrategyByShape ==
    AdapterRan /\ Did("Server", "ok") =>
        /\ UpnStrategy =>
              /\ FirstOp = "bind_user"
              /\ ~Tried("bind_service")
              /\ Tried("search") =>
                     settings.LDAP_BASE_DN # "" /\ Did("bind_user", "ok")
              /\ Did("search", "none") =>
                     loginRes.flow.ldap = Return(Synthesized(loginRes.username))
        /\ SearchBindStrategy =>
              /\ FirstOp = "bind_service"
              /\ Tried("bind_user") =>
                     Did("search", "full") \/ Did("search", "bare")
              /\ Did("search", "none") => Rejected(loginRes.flow.ldap)

\* A domain and a base DN are both configured: alice was bound as
\* alice@corp.local and then looked up, with no entry found.
C27_Witness ==
    /\ AdapterRan /\ UpnStrategy /\ settings.LDAP_BASE_DN # ""
    /\ loginRes.username = "alice"
    /\ Did("bind_user", "ok") /\ Did("search", "none")
    /\ loginRes.flow.ldap = Return(Synthesized("alice"))

\* The key a request is to be counted under: its client address, and the
\* one key "unknown" for every request that carries none.
OwnKey(peer) == IF peer \in Addrs THEN peer ELSE "unknown"

\* A governed request of peer touches the window of its own key only, and
\* is admitted exactly when that window is not full.
OwnWindowStep(peer) ==
    /\ Dispatch(peer, "/api/v1/auth/login")
    /\ \A other \in Keys \ {OwnKey(peer)} :
          /\ Window(clients', other) = Window(clients, other)
          /\ other \in DOMAIN clients' <=> other \in DOMAIN clients
          /\ req'[other] = req[other]
    /\ req'[OwnKey(peer)] = req[OwnKey(peer)] + 1 <=> ~Full(OwnKey(peer), now)
    /\ Full(OwnKey(peer), now) => resp'.status = 429 /\ resp'.key = OwnKey(peer)

\* C29: in every state, whatever the other clients have requested, a
\* governed request changes the window of its own client key only and is
\* admitted or rejected on that window alone; the requests without a client
\* address are all counted under the key "unknown".
C29_OwnWindowOnly ==
    InFlight < MaxReq => \A peer \in Peers : ENABLED OwnWindowStep(peer)

\* One client has a full window and was rejected at this instant, while a
\* request without client address was admitted at the same instant.
C29_Witness ==
    /\ InFlight < MaxReq
    /\ \E a \in Addrs : Full(a, now) /\ resp.status = 429 /\ resp.key = a
    /\ "unknown" \in DOMAIN clients
    /\ clients["unknown"] = <<now>>
    /\ req["unknown"] = 1

\* C30: with the directory enabled, a call with an empty username or an
\* empty password returns None and makes no operation on the directory (no
\* server object, no connection, no bind): under neither strategy does an
\* empty secret end in Resolved.
C30_EmptyCredentialsRejected ==
    /\ loginRes.called /\ settings.LDAP_ENABLED
    /\ loginRes.username = "" \/ loginRes.password = ""
    => /\ loginRes.flow.ldap = Return(None)
       /\ loginRes.flow.ops = << >>
       /\ ~Resolved(loginRes.flow.ldap)

\* alice logged in with an empty password under the UPN strategy.
C30_Witness ==
    /\ loginRes.called /\ UpnStrategy
    /\ loginRes.username = "alice" /\ loginRes.password = ""
    /\ Rejected(loginRes.flow.ldap)
    /\ ~Tried("Server")

(***************************************************************************)
(* Claims about the application, checked under SpecApp.                    *)
(***************************************************************************)
\* C14: the governor is the outermost middleware; login starts only for a
\* request the governor has admitted and that waits at call_next, and the
\* step that rejects a request starts no handler, passes nothing on, and
\* leaves the directory and the token service untouched; tokens come only
\* from a login that was started that way.
C14_GovernorFirst ==
    [][/\ MiddlewareStack[1] = "RateLimitMiddleware"
       /\ (loginRes' # loginRes /\ loginRes' # NoLogin /\ ~loginRes'.called) =>
              /\ loginRes'.key \in Keys
              /\ req[loginRes'.key] > 0
              /\ req' = req
       /\ (resp' # resp /\ resp'.status = 429) =>
              loginRes' = loginRes /\ req' = req
       /\ (loginRes' # loginRes /\ loginRes'.called) =>
              /\ Blocking
              /\ req'[loginRes.key] = req[loginRes.key] - 1]_vars

\* The client's window is full and its last request was rejected; the logins
\* admitted before have all been served, the last one with tokens.
C14_Witness ==
    /\ \E key \in Keys : /\ Full(key, now)
                         /\ resp.status = 429 /\ resp.key = key
                         /\ req[key] = 0
    /\ loginRes # NoLogin /\ loginRes.called
    /\ loginRes.flow.out.kind = "Token"

\* A login is inside its call of authenticate_ldap_user.
WaitingOnDirectory ==
    /\ Blocking
    /\ settings.LDAP_ENABLED /\ settings.LDAP_SERVER # ""
    /\ loginRes.username # "" /\ loginRes.password # ""

\* C19, as stated: while one login waits on the directory, the governor and
\* the other requests keep making progress: a request that arrives in the
\* meantime is taken up by the governor, a health check in its handler is
\* answered.
C19_AsStated ==
    WaitingOnDirectory =>
        /\ InFlight < MaxReq =>
               ENABLED (\E peer \in Peers, path \in Paths : AppDispatch(peer, path))
        /\ req["exempt"] > 0 => ENABLED AppExemptReturn

(***************************************************************************)
(* Claims about the token service, checked under SpecToken.                *)
(***************************************************************************)
\* The held token is what the token service issued, unaltered.
Authentic == held.tok.form = "jwt" /\ held.tok.sig = "valid"

Failed(result) == result.kind = "raise" \/ result.value = None

\* The instant the token service gave the held token as its expiry, in ticks.
ExpiryInstant ==
    Expire(held.ttl, IF held.kind = "access" THEN AccessExpire ELSE RefreshExpire,
           held.iat)

\* C7: for every subject s, kind k and ttl > 0, verifying a token issued for
\* (s, k, ttl) with expected kind k before its expiry succeeds and returns
\* claims whose subject is s.
C7_VerifyIssueRoundTrip ==
    /\ vres.called /\ vres.fn = "verify_token"
    /\ Authentic /\ held.origin = "issue"
    /\ held.ttl > 0
    /\ vres.expected = held.kind
    /\ now < held.iat + held.ttl
    => vres.result = Return(TokenData(held.sub))

\* A refresh token for alice with the longest ttl, verified as refresh at the
\* last tick before its expiry.
C7_Witness ==
    /\ vres.called /\ vres.fn = "verify_token"
    /\ Authentic /\ held.origin = "issue"
    /\ held.kind = "refresh" /\ vres.expected = "refresh"
    /\ held.sub = "alice"
    /\ held.ttl = MaxDelta
    /\ now = held.iat + held.ttl - 1
    /\ vres.result = Return(TokenData("alice"))

\* C8: verifying a token with an expected kind other than the kind it was
\* issued with fails, for every subject and ttl.
C8_KindMismatchFails ==
    /\ vres.called /\ vres.fn = "verify_token"
    /\ Authentic
    /\ vres.expected # held.kind
    => vres.result = Return(None)

\* An unexpired access token was verified as refresh.
C8_Witness ==
    /\ vres.called /\ vres.fn = "verify_token"
    /\ Authentic
    /\ held.kind = "access" /\ vres.expected = "refresh"
    /\ now < ExpiryInstant
    /\ vres.result = Return(None)

\* C9, as stated: a verification performed after the token's expiry instant
\* fails, whatever the expected kind.
C9_AsStated ==
    /\ vres.called
    /\ Authentic
    /\ now > ExpiryInstant
    => Failed(vres.result)

\* Why a presented token must be rejected.
Malformed == held.tok.form # "jwt"
BadSignature == held.tok.form = "jwt" /\ held.tok.sig # "valid"
Expired == Authentic /\ held.tok.exp < Seconds(now)
KindMismatch == Authentic /\ held.tok.type # vres.expected

\* The one outcome of a failed verification.
GenericFailure(fn) ==
    IF fn = "verify_token" THEN Return(None) ELSE CredentialsException

\* C10: a malformed token, a bad signature, an expired token and a kind
\* mismatch all end in the same outcome: verify_token returns the same value
\* and get_current_user raises the same error in the four cases.
C10_SingleGenericFailure ==
    vres.called /\ (Malformed \/ BadSignature \/ Expired \/ KindMismatch) =>
        vres.result = GenericFailure(vres.fn)

\* get_current_user rejected an expired token of the right kind.
C10_Witness ==
    /\ vres.called /\ vres.fn = "get_current_user"
    /\ Expired /\ ~KindMismatch
    /\ vres.result = CredentialsException

\* C11, as stated: every token the token service minted, for any supplied or
\* configured ttl, has an expiry instant strictly later than the instant it
\* was created.
C11_AsStated ==
    held.tok # NoToken /\ Authentic => ExpiryInstant > held.iat

\* C20, as stated: the refresh operation, presented with a token the token
\* service issued, of the refresh kind or of the access kind, before its
\* expiry, returns a new access/refresh pair.
C20_AsStated ==
    /\ vres.called /\ vres.fn = "refresh_token"
    /\ Authentic
    /\ now < ExpiryInstant
    => vres.result.kind = "Token"

\* C21, as stated: both tokens of the pair refresh returns carry exactly the
\* subject of the token presented, for every subject a login can produce.
C21_AsStated ==
    /\ vres.called /\ vres.fn = "refresh_token"
    /\ Authentic
    /\ vres.result.kind = "Token"
    => /\ vres.result.access_token.sub = held.tok.sub
       /\ vres.result.refresh_token.sub = held.tok.sub

\* The local store holds the username with the supplied secret.
LocalMatch ==
    AuthenticateUser(loginRes.username, loginRes.password).value # None

\* C24: with the directory disabled and a matching credential in the local
\* store, the access token of the pair login returned, verified with
\* expected kind access before its expiry, resolves to the username as
\* subject.
C24_LocalLoginRoundTrip ==
    /\ vres.called /\ vres.fn = "verify_token" /\ vres.expected = "access"
    /\ Authentic /\ held.origin = "login" /\ held.kind = "access"
    /\ ~settings.LDAP_ENABLED
    /\ LocalMatch
    /\ now < ExpiryInstant
    => /\ loginRes.flow.out.kind = "Token"
       /\ held.tok = loginRes.flow.out.access_token
       /\ vres.result = Return(TokenData(loginRes.username))

\* test@example.com logged in with testpassword, the directory disabled, and
\* the access token was verified a tick later.
C24_Witness ==
    /\ vres.called /\ vres.fn = "verify_token" /\ vres.expected = "access"
    /\ Authentic /\ held.origin = "login" /\ held.kind = "access"
    /\ ~settings.LDAP_ENABLED
    /\ loginRes.username = "test@example.com"
    /\ loginRes.password = "testpassword"
    /\ now = loginRes.at + 1
    /\ vres.result = Return(TokenData("test@example.com"))

\* C25, as stated: a token minted with a supplied ttl expires exactly at
\* now + ttl, a ttl of zero duration included, and the configured default is
\* used only when no ttl is supplied.
C25_AsStated ==
    held.tok # NoToken /\ Authentic /\ held.origin = "issue" =>
        held.tok.exp =
            Seconds(held.iat + (IF held.ttl # NoDelta THEN held.ttl
                                ELSE IF held.kind = "access" THEN AccessExpire
                                ELSE RefreshExpire))

====
